---- MODULE Spec2Model ----
(***************************************************************************)
(* Model of find_missing_contracts.py: list the '.sol' files below two     *)
(* directories, subtract the second set of relative paths from the first,  *)
(* write the difference to missing_contracts.txt and print a summary.      *)
(*                                                                         *)
(* Strings are sequences of one-character strings.  A directory path is a  *)
(* sequence of path components (each a string); the empty sequence is the  *)
(* empty string '' of line 14, which names no directory.                   *)
(***************************************************************************)
EXTENDS Integers, Sequences, FiniteSets, TLC

\* ---------------------------------------------------------------- bounds
MaxDepth == 1      \* nesting depth of the sub-directories below a root
MaxFiles == 2      \* number of files in the two trees together
MaxRuns  == 2      \* number of times the script is run

\* ------------------------------------------------------------- constants
\* the literal '.sol' of line 8
DotSol == <<".", "s", "o", "l">>

OutputNameSol == <<"m", "i", "s", "s", "i", "n", "g", "_", "c", "o", "n", "t", "r",
                   "a", "c", "t", "s", ".", "s", "o", "l">>

\* the literal 'missing_contracts.txt' of line 25
OutputName == <<"m", "i", "s", "s", "i", "n", "g", "_", "c", "o", "n", "t", "r",
                "a", "c", "t", "s", ".", "t", "x", "t">>

\* --------------------------------------------- the file systems explored
XSol   == <<"x", ".", "s", "o", "l">>
XSolx  == <<"x", ".", "s", "o", "l", "x">>
XSOL   == <<"x", ".", "S", "O", "L">>
ZTxt   == <<"z", ".", "t", "x", "t">>
NlSol  == <<"x", "\n", "y", ".", "s", "o", "l">>
FileNames == {XSol, DotSol, XSolx, XSOL, ZTxt, NlSol}
SubdirNames == {XSol, XSolx}

LRoot == << <<"L">> >>
RRoot == << <<"R">> >>
WDir  == << <<"W">> >>
EmptyStr == << >>
OldContent == <<"o", "l", "d", "\n">>

RECURSIVE Chain(_, _)
Chain(root, n) == IF n = 0 THEN {root}
                  ELSE {root} \cup Chain(Append(root, <<"a">>), n - 1)

RECURSIVE SubsetsUpTo(_, _)
SubsetsUpTo(S, k) == IF k = 0 THEN {{}}
                     ELSE LET P == SubsetsUpTo(S, k - 1)
                          IN  P \cup {p \cup {x} : p \in P, x \in S}

VARIABLES
  files,                \* the regular files: pairs <<directory, name>>
  dirs,                 \* the directories that exist
  noaccess,             \* the directories that cannot be listed
  cwd,                  \* the working directory of the process
  content,              \* the content of cwd/missing_contracts.txt
  sanctuary_dir, sourcify_dir,
  pc,                   \* position of main()
  sanctuary_contracts, sourcify_contracts, missing_contracts,
  f,                    \* the file object of line 25: "none", "open", "closed"
  todo,                 \* elements the loop of line 26 has not visited yet
  stdout,               \* the lines printed so far
  run,                  \* number of the current run
  prev_missing,         \* missing_contracts of the previous run
  files0, content0      \* the files and the output content at the start of the run

vars == <<files, dirs, noaccess, cwd, content, sanctuary_dir, sourcify_dir, pc,
          sanctuary_contracts, sourcify_contracts, missing_contracts, f, todo,
          stdout, run, prev_missing, files0, content0>>

fsvars == <<dirs, noaccess, cwd, sanctuary_dir, sourcify_dir>>

\* ------------------------------------------------------- string helpers
endswithNoCase(s, suffix) ==
  LET up(c) == IF c = "S" THEN "s" ELSE IF c = "O" THEN "o" ELSE IF c = "L" THEN "l" ELSE c
  IN  /\ Len(s) >= Len(suffix)
      /\ \A i \in 1..Len(suffix) : up(s[Len(s) - Len(suffix) + i]) = suffix[i]

\* str.endswith (line 8)
endswith(s, suffix) ==
  /\ Len(s) >= Len(suffix)
  /\ SubSeq(s, Len(s) - Len(suffix) + 1, Len(s)) = suffix

\* os.path.join(root, file) (line 9), on path components
join(root, file) == Append(root, file)

\* os.path.abspath: '' is the working directory, every other path of the
\* model is absolute already
abspath(p) == IF p = EmptyStr THEN cwd ELSE p

RECURSIVE JoinSep(_)
JoinSep(list) == IF Len(list) = 1 THEN list[1]
                 ELSE list[1] \o <<"/">> \o JoinSep(Tail(list))

\* os.path.relpath(path, start) (line 9)
relpath(path, start) ==
  LET start_list == abspath(start)
      path_list  == abspath(path)
      Common == {k \in 0..Len(start_list) :
                   k <= Len(path_list) /\ SubSeq(start_list, 1, k) = SubSeq(path_list, 1, k)}
      i == CHOOSE k \in Common : \A j \in Common : j <= k
      rel_list == [k \in 1..(Len(start_list) - i) |-> <<".", ".">>]
                    \o SubSeq(path_list, i + 1, Len(path_list))
  IN  IF rel_list = << >> THEN <<".">> ELSE JoinSep(rel_list)

\* -------------------------------------------------------------- os.walk
scandir_ok(top) == top \in dirs /\ top \notin noaccess
nondirs(top) == {e[2] : e \in {g \in files : g[1] = top}}
subdirs(top) == {d \in dirs : Len(d) = Len(top) + 1 /\ SubSeq(d, 1, Len(top)) = top}

walkTopOnly(top) == IF ~scandir_ok(top) THEN {} ELSE {<<top, nondirs(top)>>}

\* os.walk(top) with onerror=None: a directory that cannot be listed yields
\* nothing and raises nothing (line 6)
RECURSIVE walk(_)
walk(top) ==
  IF ~scandir_ok(top) THEN {}
  ELSE {<<top, nondirs(top)>>} \cup UNION {walk(d) : d \in subdirs(top)}

\* the <<root, file>> pairs that pass the test of line 8
sol_entries(directory) ==
  UNION {{<<w[1], file>> : file \in {n \in w[2] : endswith(n, DotSol)}} : w \in walk(directory)}

Orders(S) == {s \in [1..Cardinality(S) -> S] : \A i, j \in 1..Cardinality(S) : s[i] = s[j] => i = j}

\* list_sol_files (lines 3-10): the lists it can return, one per order in
\* which the walk can yield the entries
list_sol_files(directory) ==
  {[i \in 1..Len(o) |-> relpath(join(o[i][1], o[i][2]), directory)] :
     o \in Orders(sol_entries(directory))}

setDropLast(lst) == {lst[i] : i \in 1..(Len(lst) - 1)}

\* set(...) of lines 18-19
set(lst) == {lst[i] : i \in 1..Len(lst)}

differenceNone(a, b) == a

\* the set subtraction of line 22
difference(a, b) == a \ b

OutFile == <<cwd, OutputName>>

\* ----------------------------------------------------------------- Init
\* the trees explored: any of FileNames directly in a root, any of
\* SubdirNames in a sub-directory, MaxFiles files at most
Trees(ds) ==
  SubsetsUpTo({<<d, n>> : d \in ds \cap {LRoot, RRoot}, n \in FileNames}
                \cup {<<d, n>> : d \in ds \ {LRoot, RRoot, WDir}, n \in SubdirNames},
              MaxFiles)

RootPairs == {<<LRoot, RRoot>>, <<LRoot, LRoot>>, <<EmptyStr, RRoot>>}

Init ==
  /\ \E rp \in RootPairs : sanctuary_dir = rp[1] /\ sourcify_dir = rp[2]
  /\ \E l \in {{}} \cup {Chain(d, MaxDepth) : d \in {LRoot} \cap {sanctuary_dir, sourcify_dir}},
        r \in {{}} \cup {Chain(d, MaxDepth) : d \in {RRoot} \cap {sanctuary_dir, sourcify_dir}} :
       dirs = {WDir} \cup l \cup r
  /\ noaccess \in {{}} \cup {{d} : d \in dirs \cap {LRoot, RRoot, Append(LRoot, <<"a">>)}}
  /\ cwd \in {WDir, LRoot} \cap dirs
  /\ \E t \in Trees(dirs), prior \in {"absent", "empty", "old"} :
       /\ files = t \cup (IF prior = "absent" THEN {} ELSE {OutFile})
       /\ content = IF prior = "old" THEN OldContent ELSE << >>
  /\ pc = "enumLeft"
  /\ sanctuary_contracts = {} /\ sourcify_contracts = {} /\ missing_contracts = {}
  /\ f = "none" /\ todo = {} /\ stdout = << >>
  /\ run = 1 /\ prev_missing = {}
  /\ files0 = files /\ content0 = content

\* -------------------------------------------------------------- actions
\* line 18
EnumLeft ==
  /\ pc = "enumLeft"
  /\ \E lst \in list_sol_files(sanctuary_dir) : sanctuary_contracts' = set(lst)
  /\ pc' = "enumRight"
  /\ UNCHANGED <<files, content, sourcify_contracts, missing_contracts, f, todo, stdout,
                 run, prev_missing, files0, content0>>
  /\ UNCHANGED fsvars

\* line 19
EnumRight ==
  /\ pc = "enumRight"
  /\ \E lst \in list_sol_files(sourcify_dir) : sourcify_contracts' = set(lst)
  /\ pc' = "diff"
  /\ UNCHANGED <<files, content, sanctuary_contracts, missing_contracts, f, todo, stdout,
                 run, prev_missing, files0, content0>>
  /\ UNCHANGED fsvars

\* line 22
Diff ==
  /\ pc = "diff"
  /\ missing_contracts' = difference(sanctuary_contracts, sourcify_contracts)
  /\ pc' = "open"
  /\ UNCHANGED <<files, content, sanctuary_contracts, sourcify_contracts, f, todo, stdout,
                 run, prev_missing, files0, content0>>
  /\ UNCHANGED fsvars

OpenAppend ==
  /\ pc = "open"
  /\ files' = files \cup {OutFile}
  /\ content' = content
  /\ f' = "open"
  /\ todo' = missing_contracts
  /\ pc' = "write"
  /\ UNCHANGED <<sanctuary_contracts, sourcify_contracts, missing_contracts, stdout,
                 run, prev_missing, files0, content0>>
  /\ UNCHANGED fsvars

\* line 25, open(..., 'w') succeeds: the file is created or truncated
Open ==
  /\ pc = "open"
  /\ files' = files \cup {OutFile}
  /\ content' = << >>
  /\ f' = "open"
  /\ todo' = missing_contracts
  /\ pc' = "write"
  /\ UNCHANGED <<sanctuary_contracts, sourcify_contracts, missing_contracts, stdout,
                 run, prev_missing, files0, content0>>
  /\ UNCHANGED fsvars

\* line 25, open raises OSError: nothing is created and main() is left
OpenFail ==
  /\ pc = "open"
  /\ pc' = "crashed"
  /\ UNCHANGED <<files, content, sanctuary_contracts, sourcify_contracts, missing_contracts,
                 f, todo, stdout, run, prev_missing, files0, content0>>
  /\ UNCHANGED fsvars

\* lines 26-27, one iteration: the set yields its elements in any order
Write ==
  /\ pc = "write"
  /\ \E contract \in todo :
       /\ content' = content \o contract \o <<"\n">>
       /\ todo' = todo \ {contract}
  /\ UNCHANGED <<files, pc, sanctuary_contracts, sourcify_contracts, missing_contracts, f,
                 stdout, run, prev_missing, files0, content0>>
  /\ UNCHANGED fsvars

WriteFailLeak ==
  /\ pc = "write"
  /\ todo # {}
  /\ pc' = "crashed"
  /\ UNCHANGED <<files, content, sanctuary_contracts, sourcify_contracts, missing_contracts,
                 f, todo, stdout, run, prev_missing, files0, content0>>
  /\ UNCHANGED fsvars

\* line 27 raises (OSError, UnicodeEncodeError): the with statement closes f
\* and the exception leaves main()
WriteFail ==
  /\ pc = "write"
  /\ todo # {}
  /\ f' = "closed"
  /\ pc' = "crashed"
  /\ UNCHANGED <<files, content, sanctuary_contracts, sourcify_contracts, missing_contracts,
                 todo, stdout, run, prev_missing, files0, content0>>
  /\ UNCHANGED fsvars

\* the loop of line 26 is exhausted: the with statement closes f; the
\* flush inside close() may raise, f is closed either way
Close ==
  /\ pc = "write"
  /\ todo = {}
  /\ f' = "closed"
  /\ pc' \in {"print1", "crashed"}
  /\ UNCHANGED <<files, content, sanctuary_contracts, sourcify_contracts, missing_contracts,
                 todo, stdout, run, prev_missing, files0, content0>>
  /\ UNCHANGED fsvars

\* line 29
Print1 ==
  /\ pc = "print1"
  /\ stdout' = Append(stdout, <<"listed", OutputName>>)
  /\ pc' = "print2"
  /\ UNCHANGED <<files, content, sanctuary_contracts, sourcify_contracts, missing_contracts,
                 f, todo, run, prev_missing, files0, content0>>
  /\ UNCHANGED fsvars

\* line 30
Print2 ==
  /\ pc = "print2"
  /\ stdout' = Append(stdout, <<"total", Cardinality(missing_contracts)>>)
  /\ pc' = "done"
  /\ UNCHANGED <<files, content, sanctuary_contracts, sourcify_contracts, missing_contracts,
                 f, todo, run, prev_missing, files0, content0>>
  /\ UNCHANGED fsvars

\* lines 32-33: the script is started again on the file system the previous
\* run left behind
Rerun ==
  /\ pc \in {"done", "crashed"}
  /\ run < MaxRuns
  /\ run' = run + 1
  /\ prev_missing' = missing_contracts
  /\ files0' = files /\ content0' = content
  /\ pc' = "enumLeft"
  /\ sanctuary_contracts' = {} /\ sourcify_contracts' = {} /\ missing_contracts' = {}
  /\ f' = "none" /\ todo' = {} /\ stdout' = << >>
  /\ UNCHANGED <<files, content>>
  /\ UNCHANGED fsvars

Next ==
  \/ EnumLeft \/ EnumRight \/ Diff
  \/ Open \/ OpenFail
  \/ Write \/ WriteFail \/ Close
  \/ Print1 \/ Print2
  \/ Rerun

Spec == Init /\ [][Next]_vars


\* ------------------------------------------------- vocabulary of the claims
\* the directory e lies at or below root, and every directory from root
\* down to it exists and can be listed
Reachable(e, root) ==
  /\ Len(root) >= 1
  /\ Len(e[1]) >= Len(root)
  /\ \A k \in 1..Len(root) : e[1][k] = root[k]
  /\ \A k \in Len(root)..Len(e[1]) :
       /\ SubSeq(e[1], 1, k) \in dirs
       /\ SubSeq(e[1], 1, k) \notin noaccess

\* the path of e relative to root, components separated by "/"
RelOf(e, root) == JoinSep(Append(SubSeq(e[1], Len(root) + 1, Len(e[1])), e[2]))

HasSolSuffix(n) ==
  /\ Len(n) >= 4
  /\ n[Len(n) - 3] = "." /\ n[Len(n) - 2] = "s" /\ n[Len(n) - 1] = "o" /\ n[Len(n)] = "l"

FilesUnder(root) == {e \in files : Reachable(e, root)}
SolSet(root) == {RelOf(e, root) : e \in {g \in FilesUnder(root) : HasSolSuffix(g[2])}}

\* line 22 has been executed in the current run
Computed == pc \in {"open", "write", "print1", "print2", "done", "crashed"}
\* line 18 (line 19, line 22) is the statement executed last
LeftListed == pc = "enumRight"
RightListed == pc = "diff"
JustComputed == pc = "open"
Terminal == pc \in {"done", "crashed"}

\* the lines of a text: maximal pieces ended by "\n", and a last piece that
\* is not ended when the text does not end with "\n"
RECURSIVE SplitLines(_, _)
SplitLines(s, cur) ==
  IF s = << >> THEN (IF cur = << >> THEN << >> ELSE <<cur>>)
  ELSE IF Head(s) = "\n" THEN <<cur>> \o SplitLines(Tail(s), << >>)
  ELSE SplitLines(Tail(s), Append(cur, Head(s)))

Lines(s) == SplitLines(s, << >>)

RECURSIVE Concat(_)
Concat(ls) == IF ls = << >> THEN << >> ELSE Head(ls) \o <<"\n">> \o Concat(Tail(ls))

\* the texts that hold every element of S once, each followed by "\n"
Serializations(S) == {Concat(o) : o \in Orders(S)}

\* ------------------------------------------------------------------ C1
\* C1: when line 22 has run, missing_contracts is exactly the set of
\* relative paths of the files reachable under the left root whose name
\* ends with ".sol" and for which no file reachable under the right root
\* has the same relative path.
C1_MissingSetExact ==
  JustComputed =>
    missing_contracts =
      {RelOf(e, sanctuary_dir) :
         e \in {g \in FilesUnder(sanctuary_dir) :
                  /\ HasSolSuffix(g[2])
                  /\ ~ \E h \in FilesUnder(sourcify_dir) :
                         RelOf(h, sourcify_dir) = RelOf(g, sanctuary_dir)}}

C1_Witness ==
  /\ JustComputed
  /\ \E p \in missing_contracts : \E i \in 1..Len(p) : p[i] = "/"
  /\ sourcify_contracts \ sanctuary_contracts # {}

\* ------------------------------------------------------------------ C2
\* C2: when list_sol_files returns, its result holds the relative path of a file under
\* the root if and only if the file's name ends with exactly ".sol":
\* x.solx, x.SOL and z.txt are never listed, a file named ".sol" always is.
C2_SuffixFilter ==
  LET left  == FilesUnder(sanctuary_dir)
      right == FilesUnder(sourcify_dir)
  IN  /\ LeftListed =>
            /\ \A e \in left :
                 LET p == RelOf(e, sanctuary_dir)
                 IN  /\ p \in sanctuary_contracts <=> HasSolSuffix(e[2])
                     /\ e[2] \in {XSolx, XSOL, ZTxt} => p \notin sanctuary_contracts
                     /\ e[2] = DotSol => p \in sanctuary_contracts
            /\ sanctuary_contracts \subseteq {RelOf(e, sanctuary_dir) : e \in left}
      /\ RightListed =>
            /\ \A e \in right :
                 RelOf(e, sourcify_dir) \in sourcify_contracts <=> HasSolSuffix(e[2])
            /\ sourcify_contracts \subseteq {RelOf(e, sourcify_dir) : e \in right}

C2_Witness ==
  /\ pc = "enumRight"
  /\ \E e \in FilesUnder(sanctuary_dir) : e[2] = DotSol
  /\ \E e \in FilesUnder(sanctuary_dir) : e[2] \in {XSolx, XSOL}

\* ------------------------------------------------------------------ C3
\* C3: list_sol_files never returns for a root that does not exist or
\* cannot be listed: main() gets past line 18 (line 19) only when the left
\* (right) root can be listed.
C3_MissingRootRaises ==
  /\ pc = "enumRight" => scandir_ok(sanctuary_dir)
  /\ pc = "diff" => scandir_ok(sourcify_dir)

\* ------------------------------------------------------------------ C4
\* C4: a run over a missing or unreadable root ends with the output file as
\* it was before the run and with nothing printed.
C4_NoPartialResults ==
  (Terminal /\ (~scandir_ok(sanctuary_dir) \/ ~scandir_ok(sourcify_dir))) =>
    /\ files = files0
    /\ content = content0
    /\ stdout = << >>

\* ------------------------------------------------------------------ C5
\* C5: after a run that completes normally the lines of the output file are
\* the elements of the missing set, each once and each ended by a newline,
\* and the printed total is the number of lines and the size of the set.
C5_LinesAndCount ==
  pc = "done" =>
    /\ content = Concat(Lines(content))
    /\ set(Lines(content)) = missing_contracts
    /\ Len(Lines(content)) = Cardinality(missing_contracts)
    /\ stdout[2] = <<"total", Len(Lines(content))>>

\* ------------------------------------------------------------------ C6
\* C6: whatever the output file held before the run (absent, empty, old
\* lines), once the with block has been left normally the file exists and
\* its content is a serialization of the current missing set and nothing
\* else; for an empty missing set it is empty.
C6_Overwrites ==
  pc \in {"print1", "print2", "done"} =>
    /\ OutFile \in files
    /\ content \in Serializations(missing_contracts)
    /\ missing_contracts = {} => content = << >>

C6_Witness ==
  /\ pc = "done"
  /\ content0 = OldContent
  /\ missing_contracts # {}

\* ------------------------------------------------------------------ C7
\* C7: when both roots are the same directory the missing set is empty, the
\* output file is written empty and the printed total is 0.
C7_Identity ==
  sanctuary_dir = sourcify_dir =>
    /\ Computed => missing_contracts = {}
    /\ pc = "done" => content = << >> /\ stdout[2] = <<"total", 0>>

C7_Witness ==
  /\ pc = "done"
  /\ sanctuary_dir = sourcify_dir
  /\ sanctuary_contracts # {}

\* ------------------------------------------------------------------ C8
\* C8: a second run over the trees the first run left behind computes the
\* missing set the first run computed, and prints the same total, whatever
\* the walk orders were and whatever the first run wrote.
C8_SameOnRerun ==
  run >= 2 =>
    /\ Computed => missing_contracts = prev_missing
    /\ pc = "done" => stdout[2] = <<"total", Cardinality(prev_missing)>>

C8_Witness ==
  /\ run = 2 /\ pc = "done"
  /\ Cardinality(missing_contracts) >= 2
  /\ cwd = sanctuary_dir /\ content0 # << >>

\* ------------------------------------------------------------------ C9
\* C9: the output file is open only inside the write step, which comes
\* after both listings and the subtraction; in a terminal state, normal or
\* after an error raised while writing, it is not open; a summary line has
\* been printed only after it was closed and only on the normal path.
C9_HandleScoped ==
  /\ f = "open" <=> pc = "write"
  /\ pc \in {"enumLeft", "enumRight", "diff", "open"} => f = "none"
  /\ Terminal => f # "open"
  /\ stdout # << >> => f = "closed" /\ pc \in {"print2", "done"}
  /\ pc \in {"print1", "print2", "done"} => f = "closed"

C9_Witness ==
  /\ pc = "crashed"
  /\ f = "closed"
  /\ todo # {} /\ todo # missing_contracts

\* ----------------------------------------------------------------- C10
\* C10: no step changes the set of ".sol" relative paths under either
\* root, the directories or their permissions, and the only file a step
\* creates is missing_contracts.txt in the working directory.
C10_RootsReadOnly ==
  [][\/ UNCHANGED <<files, dirs, noaccess, sanctuary_dir, sourcify_dir>>
     \/ /\ SolSet(sanctuary_dir)' = SolSet(sanctuary_dir)
        /\ SolSet(sourcify_dir)' = SolSet(sourcify_dir)
        /\ files' \ {OutFile} = files \ {OutFile}
        /\ dirs' = dirs /\ noaccess' = noaccess]_vars

C10_Witness ==
  /\ OutFile \in files /\ OutFile \notin files0
  /\ cwd = sanctuary_dir
  /\ scandir_ok(sanctuary_dir)
  /\ pc = "done"

====
